---------------------------- MODULE Spec2Model ----------------------------
(***************************************************************************)
(* A model of parse_factsheet.py: the text normalizer, the table           *)
(* normalizer and de-duplicator, the page content assembler, the content   *)
(* merger and the metadata extractor.                                      *)
(*                                                                         *)
(* A Python str is modelled as a sequence of one-character strings, so     *)
(* "ab c" is <<"a", "b", " ", "c">>.  None is the one-element sequence    *)
(* <<"None">>, which is no text since "None" is no character.  The         *)
(* no-break spaces U+00A0, U+2007 and U+202F are the characters "NBSP",    *)
(* "FIGSP" and "NNBSP".                                                    *)
(***************************************************************************)
EXTENDS Integers, Sequences, FiniteSets, TLC

VARIABLES
    \* clean_text applied, and applied again to its own result
    ct_t, ct_once, ct_twice, ct_pc,
    \* normalize_table: the raw cells, the table built of them, what each call
    \* of merge_fragments is given and returns (the header first), the result
    nt_cells, nt_tbl, nt_cleaned, nt_merged, nt_norm, nt_pc,
    \* extract_tables: the number of pages of the pdf, the page index i, the
    \* index of the strategy in hand, the locals seen_keys and page_tables, the
    \* result tables_by_page, and per page every raw table the strategies have
    \* returned so far with what it was normalized to
    et_npages, et_i, et_mode, seen_keys, page_tables, tables_by_page,
    et_returned, et_pc,
    \* merge_tables_into_pages: the list pages, its arguments as they were at
    \* the call
    pages, mg_pages_in, mg_tables_by_page, mg_pc,
    \* group_page_content: the number of pages of the document, the page index
    \* i, the number of blocks of the page done, the result out, the locals
    \* items, current_section and current_sub, per page the arguments of every
    \* call of push_text, and the number of blocks of the document done
    gp_npages, gp_i, gp_block, out, items, current_section, current_sub,
    gp_pushed, gp_blocks, gp_pc,
    \* extract_fund_metadata_from_content: the locals meta, seen_managers and
    \* buffer, the text of every content item the loop has reached, and whether
    \* the last one reached the manager rule and what names it matched
    meta, seen_managers, buffer, me_lines, me_last, me_pc

ctVars == <<ct_t, ct_once, ct_twice, ct_pc>>
ntVars == <<nt_cells, nt_tbl, nt_cleaned, nt_merged, nt_norm, nt_pc>>
etVars == <<et_npages, et_i, et_mode, seen_keys, page_tables, tables_by_page,
            et_returned, et_pc>>
mgVars == <<pages, mg_pages_in, mg_tables_by_page, mg_pc>>
gpVars == <<gp_npages, gp_i, gp_block, out, items, current_section, current_sub,
            gp_pushed, gp_blocks, gp_pc>>
meVars == <<meta, seen_managers, buffer, me_lines, me_last, me_pc>>
vars == <<ctVars, ntVars, etVars, mgVars, gpVars, meVars>>

\* what each component leaves alone
ctOthers == <<ntVars, etVars, mgVars, gpVars, meVars>>
ntOthers == <<ctVars, etVars, mgVars, gpVars, meVars>>
etOthers == <<ctVars, ntVars, mgVars, gpVars, meVars>>
mgOthers == <<ctVars, ntVars, etVars, gpVars, meVars>>
gpOthers == <<ctVars, ntVars, etVars, mgVars, meVars>>
meOthers == <<ctVars, ntVars, etVars, mgVars, gpVars>>

None == <<"None">>

\* a component that takes no part in the specification at hand
CtIdle == ct_t = None /\ ct_once = None /\ ct_twice = None /\ ct_pc = "idle"
NtIdle ==
    /\ nt_cells = None /\ nt_tbl = None /\ nt_cleaned = None
    /\ nt_merged = None /\ nt_norm = None /\ nt_pc = "idle"
EtIdle ==
    /\ et_npages = 0 /\ et_i = 0 /\ et_mode = 0 /\ seen_keys = {}
    /\ page_tables = None /\ tables_by_page = None /\ et_returned = None
    /\ et_pc = "idle"
MgIdle ==
    /\ pages = None /\ mg_pages_in = None /\ mg_tables_by_page = None
    /\ mg_pc = "idle"

GpIdle ==
    /\ gp_npages = 0 /\ gp_i = 0 /\ gp_block = 0 /\ out = None /\ items = None
    /\ current_section = None /\ current_sub = None /\ gp_pushed = None
    /\ gp_blocks = 0 /\ gp_pc = "idle"

MeIdle ==
    /\ meta = None /\ seen_managers = {} /\ buffer = None /\ me_lines = None
    /\ me_last = None /\ me_pc = "idle"

(***************************************************************************)
(* Character classes of Python's re on str.                                *)
(***************************************************************************)
LowerSeq == <<"a","b","c","d","e","f","g","h","i","j","k","l","m",
              "n","o","p","q","r","s","t","u","v","w","x","y","z">>
UpperSeq == <<"A","B","C","D","E","F","G","H","I","J","K","L","M",
              "N","O","P","Q","R","S","T","U","V","W","X","Y","Z">>
Range(s) == {s[i] : i \in DOMAIN s}
LowerChars == Range(LowerSeq)
UpperChars == Range(UpperSeq)
LetterChars == LowerChars \cup UpperChars
DigitChars == {"0","1","2","3","4","5","6","7","8","9"}
\* \w
WordChars == LetterChars \cup DigitChars \cup {"_"}
\* the characters line 48 turns into a space
NoBreakSpaces == {"NBSP", "FIGSP", "NNBSP"}
\* \s, and what str.strip() removes
SpaceChars == {" ", "\t", "\n", "\r"} \cup NoBreakSpaces

ToLower(c) ==
    IF c \in UpperChars
    THEN LowerSeq[CHOOSE i \in DOMAIN UpperSeq : UpperSeq[i] = c]
    ELSE c
ToUpper(c) ==
    IF c \in LowerChars
    THEN UpperSeq[CHOOSE i \in DOMAIN LowerSeq : LowerSeq[i] = c]
    ELSE c
Lower(t) == [i \in DOMAIN t |-> ToLower(t[i])]
Upper(t) == [i \in DOMAIN t |-> ToUpper(t[i])]

\* the first index >= i of t that holds no character of cs (Len(t)+1 if none)
RECURSIVE SkipChars(_, _, _)
SkipChars(t, i, cs) ==
    IF i <= Len(t) /\ t[i] \in cs THEN SkipChars(t, i + 1, cs) ELSE i

\* the last index <= i of t that holds no character of cs (0 if none)
RECURSIVE SkipCharsBack(_, _, _)
SkipCharsBack(t, i, cs) ==
    IF i >= 1 /\ t[i] \in cs THEN SkipCharsBack(t, i - 1, cs) ELSE i

\* str.strip()
Strip(t) ==
    LET lo == SkipChars(t, 1, SpaceChars)
        hi == SkipCharsBack(t, Len(t), SpaceChars)
    IN IF lo > hi THEN <<>> ELSE SubSeq(t, lo, hi)

\* t.replace("\t", " ") and re.sub(r"[\u00A0\u2007\u202F]", " ", t)
ReplaceTabs(t) ==
    [i \in DOMAIN t |-> IF t[i] = "\t" \/ t[i] \in NoBreakSpaces THEN " " ELSE t[i]]

\* the concatenation of the sequences pieces[lo], ..., pieces[hi]
RECURSIVE ConcatRange(_, _, _)
ConcatRange(pieces, lo, hi) ==
    IF lo > hi THEN <<>>
    ELSE IF lo = hi THEN pieces[lo]
    ELSE LET mid == (lo + hi) \div 2
         IN ConcatRange(pieces, lo, mid) \o ConcatRange(pieces, mid + 1, hi)
Concat(pieces) == ConcatRange(pieces, 1, Len(pieces))

\* whether "(\w)-\s+(\w)" matches t from index i on
HyphenBreakAt(t, i) ==
    /\ i >= 1 /\ i + 1 <= Len(t)
    /\ t[i] \in WordChars
    /\ t[i + 1] = "-"
    /\ LET j == SkipChars(t, i + 2, SpaceChars)
       IN j > i + 2 /\ j <= Len(t) /\ t[j] \in WordChars

\* whether re.sub takes the match at i: matches are found left to right and
\* do not overlap, so a match whose first character is the last character of
\* a match already taken is passed over
RECURSIVE HyphenBreakTaken(_, _)
HyphenBreakTaken(t, i) ==
    /\ HyphenBreakAt(t, i)
    /\ LET h == SkipCharsBack(t, i - 1, SpaceChars)
       IN ~ (h < i - 1 /\ h >= 2 /\ t[h] = "-" /\ HyphenBreakTaken(t, h - 1))

\* re.sub(r"(\w)-\s+(\w)", r"\1\2", t): of a match taken, the hyphen and the
\* whitespace after it are dropped
RejoinHyphens(t) ==
    LET dropped(i) ==
            \/ t[i] = "-" /\ HyphenBreakTaken(t, i - 1)
            \/ /\ t[i] \in SpaceChars
               /\ LET h == SkipCharsBack(t, i, SpaceChars)
                  IN h >= 2 /\ t[h] = "-" /\ HyphenBreakTaken(t, h - 1)
        kept == SelectSeq([i \in 1..Len(t) |-> i], LAMBDA i : ~ dropped(i))
    IN IF \A i \in 1..Len(t) : t[i] # "-" THEN t
       ELSE [k \in DOMAIN kept |-> t[kept[k]]]

\* re.sub(r"\s+", " ", t)
CollapseSpaces(t) ==
    LET kept == SelectSeq([i \in 1..Len(t) |-> i],
                          LAMBDA i : ~ (/\ t[i] \in SpaceChars
                                        /\ i > 1 /\ t[i - 1] \in SpaceChars))
    IN [k \in DOMAIN kept |-> IF t[kept[k]] \in SpaceChars THEN " " ELSE t[kept[k]]]

\* re.sub(r"([L])([R])", r"\1 \2", t) for two disjoint character classes L and
\* R: no character ends one match and starts the next, so every adjacent pair
\* is a match
SplitPairs(t, L, R) ==
    IF \A i \in 1..(Len(t) - 1) : ~ (t[i] \in L /\ t[i + 1] \in R) THEN t
    ELSE Concat([i \in 1..Len(t) |->
                   IF t[i] \in L /\ i + 1 <= Len(t) /\ t[i + 1] \in R
                   THEN <<t[i], " ">>
                   ELSE <<t[i]>>])

clean_text(t) ==
    IF t = <<>> THEN <<>>
    ELSE LET t1 == ReplaceTabs(t)
             t2 == RejoinHyphens(t1)
             t3 == CollapseSpaces(t2)
             t4 == SplitPairs(t3, LowerChars, UpperChars)
             t5 == SplitPairs(t4, LetterChars, DigitChars)
             t6 == SplitPairs(t5, DigitChars, LetterChars)
         IN Strip(t6)

\* the table of line 67: each pattern, a whole word matched without regard
\* to case, and its replacement, in the dict's order
fixes ==
    <<
      [pat |->
        <<"o","p","e","n","e","n","d","e","d">>,
       rep |->
        <<"o","p","e","n"," ","e","n","d","e","d">>],
      [pat |->
        <<"e","n","d","e","d","e","q","u","i","t","y">>,
       rep |->
        <<"e","n","d","e","d"," ","e","q","u","i","t","y">>],
      [pat |->
        <<"e","q","u","i","t","y","s","c","h","e","m","e">>,
       rep |->
        <<"e","q","u","i","t","y"," ","s","c","h","e","m","e">>],
      [pat |->
        <<"s","c","h","e","m","e","i","n","v","e","s","t","i","n","g">>,
       rep |->
        <<"s","c","h","e","m","e"," ","i","n","v","e","s","t","i","n","g">>],
      [pat |->
        <<"i","n","v","e","s","t","i","n","g","i","n">>,
       rep |->
        <<"i","n","v","e","s","t","i","n","g"," ","i","n">>],
      [pat |->
        <<"i","n","m","a","x","i","m","u","m">>,
       rep |->
        <<"i","n"," ","m","a","x","i","m","u","m">>],
      [pat |->
        <<"m","u","l","t","i","c","a","p","s","t","o","c","k","s">>,
       rep |->
        <<"m","u","l","t","i","c","a","p"," ","s","t","o","c","k","s">>],
      [pat |->
        <<"m","u","t","u","a","l","f","u","n","d","i","n","v","e","s","t",
          "m","e","n","t","s","a","r","e","s","u","b","j","e","c","t","t",
          "o","m","a","r","k","e","t","r","i","s","k","s">>,
       rep |->
        <<"M","u","t","u","a","l"," ","F","u","n","d"," ","i","n","v","e",
          "s","t","m","e","n","t","s"," ","a","r","e"," ","s","u","b","j",
          "e","c","t"," ","t","o"," ","m","a","r","k","e","t"," ","r","i",
          "s","k","s">>],
      [pat |->
        <<"r","e","a","d","a","l","l","s","c","h","e","m","e","r","e","l",
          "a","t","e","d","d","o","c","u","m","e","n","t","s","c","a","r",
          "e","f","u","l","l","y">>,
       rep |->
        <<"r","e","a","d"," ","a","l","l"," ","s","c","h","e","m","e"," ",
          "r","e","l","a","t","e","d"," ","d","o","c","u","m","e","n","t",
          "s"," ","c","a","r","e","f","u","l","l","y">>]
    >>

\* the two boilerplate phrases of line 87
noise_compact ==
    {
        <<"m","u","t","u","a","l","f","u","n","d","i","n","v","e","s","t",
          "m","e","n","t","s","a","r","e","s","u","b","j","e","c","t","t",
          "o","m","a","r","k","e","t","r","i","s","k","s">>,
        <<"r","e","a","d","a","l","l","s","c","h","e","m","e","r","e","l",
          "a","t","e","d","d","o","c","u","m","e","n","t","s","c","a","r",
          "e","f","u","l","l","y">>
    }

\* whether the text t holds the text n somewhere
Contains(t, n) ==
    \/ n = <<>>
    \/ \E i \in 1..(Len(t) - Len(n) + 1) :
          t[i] = n[1] /\ SubSeq(t, i, i + Len(n) - 1) = n

StartsWith(t, n) == Len(t) >= Len(n) /\ SubSeq(t, 1, Len(n)) = n
EndsWith(t, n) == Len(t) >= Len(n) /\ SubSeq(t, Len(t) - Len(n) + 1, Len(t)) = n

\* whether r"\bpat\b" matches t at index i without regard to case: pat is all
\* letters, so the match is a whole run of word characters
WordAt(t, i, pat) ==
    /\ i >= 1 /\ i + Len(pat) - 1 <= Len(t)
    /\ i = 1 \/ t[i - 1] \notin WordChars
    /\ i + Len(pat) > Len(t) \/ t[i + Len(pat)] \notin WordChars
    /\ ToLower(t[i]) = pat[1]
    /\ Lower(SubSeq(t, i, i + Len(pat) - 1)) = pat

\* re.sub(r"\bpat\b", rep, t, flags=re.IGNORECASE)
SubWord(t, pat, rep) ==
    IF \A i \in 1..Len(t) : t[i] \notin {pat[1], ToUpper(pat[1])} \/ ~ WordAt(t, i, pat)
    THEN t
    ELSE LET start(i) == SkipCharsBack(t, i, WordChars) + 1
         IN Concat([i \in 1..Len(t) |->
                      IF t[i] \in WordChars /\ WordAt(t, start(i), pat)
                      THEN IF i = start(i) THEN rep ELSE <<>>
                      ELSE <<t[i]>>])

RECURSIVE ApplyFixes(_, _)
ApplyFixes(t, k) ==
    IF k > Len(fixes) THEN t
    ELSE ApplyFixes(SubWord(t, fixes[k].pat, fixes[k].rep), k + 1)

fix_glued_domain_terms(text) ==
    IF text = <<>> THEN text ELSE ApplyFixes(text, 1)

Page == <<"p", "a", "g", "e">>

\* re.search(r"^\s*Page\s*\|?\s*\d+\s*$", text, re.IGNORECASE)
IsPageNumberLine(text) ==
    LET p == SkipChars(text, 1, SpaceChars)
        a == SkipChars(text, p + 4, SpaceChars)
        b == IF a <= Len(text) /\ text[a] = "|" THEN a + 1 ELSE a
        c == SkipChars(text, b, SpaceChars)
        d == SkipChars(text, c, DigitChars)
        e == SkipChars(text, d, SpaceChars)
    IN /\ p + 3 <= Len(text)
       /\ Lower(SubSeq(text, p, p + 3)) = Page
       /\ d > c
       /\ e = Len(text) + 1

\* re.search(r"Page\s*\d+", text, re.IGNORECASE)
HasPageNumber(text) ==
    \E i \in 1..(Len(text) - 3) :
        /\ text[i] \in {"p", "P"}
        /\ Lower(SubSeq(text, i, i + 3)) = Page
        /\ LET d == SkipChars(text, i + 4, SpaceChars)
           IN d <= Len(text) /\ text[d] \in DigitChars

is_noise(text) ==
    IF text = <<>> THEN FALSE
    ELSE LET compact == Lower(SelectSeq(text, LAMBDA c : c \in LetterChars))
         IN \/ \E n \in noise_compact : Contains(compact, n)
            \/ IsPageNumberLine(text)
            \/ HasPageNumber(text)

(***************************************************************************)
(* Table normalization.                                                    *)
(***************************************************************************)
clean_cell(c) ==
    IF c = None THEN <<>>
    ELSE Strip(fix_glued_domain_terms(clean_text(c)))

\* len(cur) <= 4 and len(nxt) <= 6
cond_short(cur, nxt) == Len(cur) <= 4 /\ Len(nxt) <= 6

\* re.match(r".*[A-Za-z]$", cur) and re.match(r"^[a-z]{1,6}$", nxt); a cell
\* holds no line break once cleaned
cond_alpha_cont(cur, nxt) ==
    /\ cur # <<>> /\ cur[Len(cur)] \in LetterChars
    /\ Len(nxt) \in 1..6
    /\ \A i \in DOMAIN nxt : nxt[i] \in LowerChars

\* the percent-split test with its two cells taken the wrong way round
cond_percent_split_Swapped(cur, nxt) ==
    /\ EndsWith(Strip(nxt), <<"%", "Y", "o">>)
    /\ StartsWith(Strip(cur), <<"Y">>)

\* cur.strip().endswith("%Yo") and nxt.strip().startswith("Y")
cond_percent_split(cur, nxt) ==
    /\ EndsWith(Strip(cur), <<"%", "Y", "o">>)
    /\ StartsWith(Strip(nxt), <<"Y">>)

MergeCond(cur, nxt) ==
    cond_short(cur, nxt) \/ cond_alpha_cont(cur, nxt) \/ cond_percent_split(cur, nxt)

\* (cur + " " + nxt).strip()
JoinCells(cur, nxt) == Strip(cur \o <<" ">> \o nxt)

\* a loop that appends a joined pair at once and goes on behind it, so that
\* a joined cell is never tested against the cell after it
RECURSIVE MergeLoopNoCarry(_, _, _)
MergeLoopNoCarry(row, i, merged) ==
    IF i > Len(row) THEN merged
    ELSE IF i + 1 <= Len(row) /\ MergeCond(row[i], row[i + 1])
         THEN MergeLoopNoCarry(row, i + 2,
                               Append(merged, JoinCells(row[i], row[i + 1])))
         ELSE MergeLoopNoCarry(row, i + 1, Append(merged, row[i]))

\* the while loop of merge_fragments from index i (1-based) on, with the row
\* as it stands and the cells appended to merged so far
RECURSIVE MergeLoop(_, _, _)
MergeLoop(row, i, merged) ==
    IF i > Len(row) THEN merged
    ELSE IF i + 1 <= Len(row) /\ MergeCond(row[i], row[i + 1])
         THEN MergeLoop([row EXCEPT ![i + 1] = JoinCells(row[i], row[i + 1])],
                        i + 1, merged)
         ELSE MergeLoop(row, i + 1, Append(merged, row[i]))

merge_fragments(row) == MergeLoop(row, 1, <<>>)

\* while cleaned and cleaned[-1] == "": cleaned.pop()
RECURSIVE PopTrailingEmpty(_)
PopTrailingEmpty(cleaned) ==
    IF cleaned # <<>> /\ cleaned[Len(cleaned)] = <<>>
    THEN PopTrailingEmpty(SubSeq(cleaned, 1, Len(cleaned) - 1))
    ELSE cleaned

CleanCells(raw_row) == [i \in DOMAIN raw_row |-> clean_cell(raw_row[i])]

normalize_table(tbl) ==
    [headers |-> merge_fragments(CleanCells(tbl.headers)),
     rows |-> [r \in DOMAIN tbl.rows |->
                 PopTrailingEmpty(merge_fragments(CleanCells(tbl.rows[r])))]]

(***************************************************************************)
(* normalize_table applied to every table whose header and single data row *)
(* hold the same few raw cells.                                            *)
(***************************************************************************)
MaxCells == 3
RawCells ==
    { None,
      <<"1", "2">>,
      <<"3", "%", "Y", "o">>,
      <<"Y">>,
      <<"H", "e", "l", "l", "o">>,
      <<"a", "b", "c">>,
      <<" ", "x", "1">>,
      <<"o", "p", "e", "n", "e", "n", "d", "e", "d">> }

NtInit ==
    /\ nt_cells = <<>>
    /\ nt_tbl = None
    /\ nt_cleaned = None
    /\ nt_merged = None
    /\ nt_norm = None
    /\ nt_pc = "input"
    /\ CtIdle /\ EtIdle /\ MgIdle /\ GpIdle /\ MeIdle

\* the extraction hands over one more cell
NtAddCell(c) ==
    /\ nt_pc = "input"
    /\ Len(nt_cells) < MaxCells
    /\ nt_cells' = Append(nt_cells, c)
    /\ UNCHANGED <<nt_tbl, nt_cleaned, nt_merged, nt_norm, nt_pc, ntOthers>>

NtNormalize ==
    /\ nt_pc = "input"
    /\ LET tbl == [headers |-> nt_cells, rows |-> <<nt_cells>>]
       IN /\ nt_tbl' = tbl
          /\ nt_cleaned' = <<CleanCells(tbl.headers)>> \o
                            [r \in DOMAIN tbl.rows |-> CleanCells(tbl.rows[r])]
          /\ nt_merged' = [k \in DOMAIN nt_cleaned' |-> merge_fragments(nt_cleaned'[k])]
          /\ nt_norm' = normalize_table(tbl)
    /\ nt_pc' = "done"
    /\ UNCHANGED <<nt_cells, ntOthers>>

NtNext ==
    \/ \E c \in RawCells : NtAddCell(c)
    \/ NtNormalize

SpecNorm == NtInit /\ [][NtNext]_vars

\* C4: no two adjacent cells of a merged header or row still satisfy a merge
\* condition.
C4_NoSplitLeft ==
    nt_pc = "done" =>
        /\ \A i \in 1..(Len(nt_norm.headers) - 1) :
              ~ MergeCond(nt_norm.headers[i], nt_norm.headers[i + 1])
        /\ \A r \in DOMAIN nt_norm.rows :
              \A i \in 1..(Len(nt_norm.rows[r]) - 1) :
                  ~ MergeCond(nt_norm.rows[r][i], nt_norm.rows[r][i + 1])

C5_Input == <<<<"1", "2">>, <<"3", "%", "Y", "o">>, <<"Y">>>>

\* C5 as stated: headers ["12", "3%Yo", "Y"] come out as ["12", "3%Yo Y"].
C5_AsStated ==
    (nt_pc = "done" /\ nt_tbl.headers = C5_Input) =>
        nt_norm.headers = <<<<"1", "2">>, <<"3", "%", "Y", "o", " ", "Y">>>>

\* C5 amended: headers ["12", "3%Yo", "Y"] come out as the one cell
\* "12 3%Yo Y": "12" and "3%Yo" merge as two short cells, and the merged cell,
\* which ends in "%Yo", merges with "Y".
C5_OneCell ==
    (nt_pc = "done" /\ nt_tbl.headers = C5_Input) =>
        nt_norm.headers =
            <<<<"1", "2", " ", "3", "%", "Y", "o", " ", "Y">>>>

C5_Witness == nt_pc = "done" /\ nt_tbl.headers = C5_Input

\* the cells row[a..b] joined left to right, as the loop joins them
RECURSIVE JoinRun(_, _, _)
JoinRun(row, a, b) ==
    IF b <= a THEN row[a] ELSE JoinCells(JoinRun(row, a, b - 1), row[b])

\* C10 as stated: every output cell is one input cell or the join of two
\* adjacent input cells.
C10_AtMostTwo ==
    nt_pc = "done" =>
        \A k \in DOMAIN nt_merged :
            LET row == nt_cleaned[k]
                got == nt_merged[k]
            IN \A o \in DOMAIN got :
                  \E i \in DOMAIN row :
                      \/ got[o] = row[i]
                      \/ i + 1 <= Len(row) /\ got[o] = JoinCells(row[i], row[i + 1])

\* whether got cuts row into runs of adjacent cells, got[o] the join of the
\* o-th run, each run grown for as long as the join so far and the next cell
\* satisfy a merge condition; ends holds the index that ends each run
GreedyRuns(row, got) ==
    IF row = <<>> THEN got = <<>>
    ELSE /\ got # <<>>
         /\ Len(got) <= Len(row)
         /\ \E cuts \in SUBSET (1..(Len(row) - 1)) :
              LET ends == cuts \cup {Len(row)}
                  end(o) == IF o = 0 THEN 0
                            ELSE CHOOSE e \in ends :
                                     Cardinality({x \in ends : x <= e}) = o
              IN /\ Cardinality(ends) = Len(got)
                 /\ \A o \in DOMAIN got :
                       /\ got[o] = JoinRun(row, end(o - 1) + 1, end(o))
                       /\ \A m \in (end(o - 1) + 1)..(end(o) - 1) :
                             MergeCond(JoinRun(row, end(o - 1) + 1, m), row[m + 1])
                       /\ end(o) < Len(row) =>
                             ~ MergeCond(got[o], row[end(o) + 1])

\* C10 amended: the pass is single and left to right, and a merged cell is
\* carried forward and tested against the cell after it, so an output cell is
\* the join of a run of one or more adjacent input cells, grown while a merge
\* condition holds.
C10_Chained ==
    nt_pc = "done" =>
        \A k \in DOMAIN nt_merged : GreedyRuns(nt_cleaned[k], nt_merged[k])

\* three cells that are not empty merged into one
C10_Witness ==
    /\ nt_pc = "done"
    /\ Len(nt_tbl.headers) = 3
    /\ \A i \in 1..3 : nt_cleaned[1][i] # <<>>
    /\ Len(nt_norm.headers) = 1

(***************************************************************************)
(* extract_tables.  A raw table is a sequence of rows, each a sequence of  *)
(* cells, each a text or None.                                             *)
(***************************************************************************)
\* the two table_settings of line 261, in order
strategies == <<"lines", "text">>

\* not tbl or all(cell is None or str(cell).strip() == "" ...)
IsBlankTable(tbl) ==
    \/ tbl = <<>>
    \/ \A r \in DOMAIN tbl : \A c \in DOMAIN tbl[r] :
          tbl[r][c] = None \/ Strip(tbl[r][c]) = <<>>

\* [cell if cell is not None else "" for cell in row]
NoneToEmpty(row) == [c \in DOMAIN row |-> IF row[c] = None THEN <<>> ELSE row[c]]

\* normalize_table({"headers": header, "rows": rows}) of lines 274 to 276
NormalizeRaw(tbl) ==
    normalize_table([headers |-> NoneToEmpty(tbl[1]),
                     rows |-> [r \in 1..(Len(tbl) - 1) |-> NoneToEmpty(tbl[r + 1])]])

\* a key that leaves the number of rows out
KeyHeadersOnly(norm) == <<norm.headers, 0>>

\* key = (tuple(norm["headers"]), len(norm["rows"]))
Key(norm) == <<norm.headers, Len(norm.rows)>>

\* a mapping with one more key, or a new value for a key it has
SetItem(d, k, v) == [x \in DOMAIN d \cup {k} |-> IF x = k THEN v ELSE d[x]]

MaxPages == 2
\* the raw tables the strategies return, over all pages
MaxRawTables == 3

T_Scheme == <<"S", "c", "h", "e", "m", "e">>
T_NAV == <<"N", "A", "V">>
RawTables ==
    { \* Scheme | NAV, one data row
      << <<T_Scheme, T_NAV>>, <<<<"x">>, <<"1">>>> >>,
      \* the same table with other whitespace in its cells
      << <<<<" ">> \o T_Scheme, T_NAV \o <<"\t">>>>, <<<<"x", " ">>, <<"\n", "1">>>> >>,
      \* the same header over another data row
      << <<T_Scheme, T_NAV>>, <<<<"z">>, <<"9">>>> >>,
      \* the same header over two data rows
      << <<T_Scheme, T_NAV>>, <<<<"x">>, <<"1">>>>, <<<<"y">>, None>> >>,
      \* another header, no data row
      << <<<<"F", "u", "n", "d">>, None>> >>,
      \* nothing but empty cells
      << <<None, <<" ">>>>, <<<<>>>> >>,
      \* no row at all
      <<>> }

\* stands for the result of normalize_table where it was not called
NoTable == [headers |-> <<>>, rows |-> <<>>]

EtInit ==
    /\ et_npages \in 1..MaxPages
    /\ et_i = 0
    /\ et_mode = 1
    /\ seen_keys = {}
    /\ page_tables = <<>>
    /\ tables_by_page = <<>>
    /\ et_returned = [p \in 0..(MaxPages - 1) |-> <<>>]
    /\ et_pc = "loop"
    /\ CtIdle /\ NtIdle /\ MgIdle /\ GpIdle /\ MeIdle

RawTablesSoFar ==
    LET n[p \in -1..(MaxPages - 1)] ==
            IF p < 0 THEN 0 ELSE n[p - 1] + Len(et_returned[p])
    IN n[MaxPages - 1]

\* the body of the loop of line 271 for one raw table of page i that the
\* strategy in hand returns
EtTable(tbl) ==
    /\ et_pc = "loop"
    /\ et_i < et_npages
    /\ RawTablesSoFar < MaxRawTables
    /\ IF IsBlankTable(tbl)
       THEN /\ et_returned' = [et_returned EXCEPT ![et_i] =
                                  Append(@, [raw |-> tbl, blank |-> TRUE, norm |-> NoTable])]
            /\ UNCHANGED <<seen_keys, page_tables>>
       ELSE LET norm == NormalizeRaw(tbl)
            IN /\ et_returned' = [et_returned EXCEPT ![et_i] =
                                     Append(@, [raw |-> tbl, blank |-> FALSE, norm |-> norm])]
               /\ IF Key(norm) \in seen_keys
                  THEN UNCHANGED <<seen_keys, page_tables>>
                  ELSE /\ seen_keys' = seen_keys \cup {Key(norm)}
                       /\ page_tables' = Append(page_tables, norm)
    /\ UNCHANGED <<et_npages, et_i, et_mode, tables_by_page, et_pc, etOthers>>

\* the strategy in hand has no more tables, or raised and counts as none
EtNextStrategy ==
    /\ et_pc = "loop"
    /\ et_i < et_npages
    /\ et_mode < Len(strategies)
    /\ et_mode' = et_mode + 1
    /\ UNCHANGED <<et_npages, et_i, seen_keys, page_tables, tables_by_page,
                   et_returned, et_pc, etOthers>>

\* the last strategy is done with page i: lines 282 and 283, and the next
\* page starts with lines 260 and 265
EtNextPage ==
    /\ et_pc = "loop"
    /\ et_i < et_npages
    /\ et_mode = Len(strategies)
    /\ tables_by_page' = IF page_tables # <<>>
                         THEN SetItem(tables_by_page, et_i, page_tables)
                         ELSE tables_by_page
    /\ et_i' = et_i + 1
    /\ et_mode' = 1
    /\ seen_keys' = {}
    /\ page_tables' = <<>>
    /\ UNCHANGED <<et_npages, et_returned, et_pc, etOthers>>

EtReturn ==
    /\ et_pc = "loop"
    /\ et_i = et_npages
    /\ et_pc' = "returned"
    /\ UNCHANGED <<et_npages, et_i, et_mode, seen_keys, page_tables,
                   tables_by_page, et_returned, etOthers>>

EtNext ==
    \/ \E tbl \in RawTables : EtTable(tbl)
    \/ EtNextStrategy
    \/ EtNextPage
    \/ EtReturn

SpecExtract == EtInit /\ [][EtNext]_vars

\* what the tables returned for a page were normalized to, the blank ones
\* left out
NormsOf(returned) ==
    LET kept == SelectSeq(returned, LAMBDA e : ~ e.blank)
    IN [k \in DOMAIN kept |-> kept[k].norm]

\* the fingerprint of the claim: the normalized headers and the number of rows
C2_Fingerprint(t) == <<t.headers, Len(t.rows)>>

\* of a list of tables, those that are the first of their fingerprint
FirstOfFingerprint(norms) ==
    LET idx == SelectSeq([k \in DOMAIN norms |-> k],
                         LAMBDA k : \A j \in 1..(k - 1) :
                                        C2_Fingerprint(norms[j]) # C2_Fingerprint(norms[k]))
    IN [k \in DOMAIN idx |-> norms[idx[k]]]

NoTwoOfOneFingerprint(tables) ==
    \A a, b \in DOMAIN tables : a # b => C2_Fingerprint(tables[a]) # C2_Fingerprint(tables[b])

\* C2: a page's list never holds two tables of one fingerprint; it is the
\* tables that were the first of their fingerprint on the page, in the order
\* seen; and a page that kept none has no key in the result.
C2_FirstPerFingerprint ==
    /\ NoTwoOfOneFingerprint(page_tables)
    /\ et_i < et_npages =>
          page_tables = FirstOfFingerprint(NormsOf(et_returned[et_i]))
    /\ DOMAIN tables_by_page \subseteq 0..(et_i - 1)
    /\ \A p \in 0..(et_i - 1) :
          LET first == FirstOfFingerprint(NormsOf(et_returned[p]))
          IN IF first = <<>>
             THEN p \notin DOMAIN tables_by_page
             ELSE /\ p \in DOMAIN tables_by_page
                  /\ tables_by_page[p] = first
                  /\ NoTwoOfOneFingerprint(tables_by_page[p])

\* a page done, for which the strategies returned two tables that differ in
\* whitespace only, and which kept one
C2_Witness ==
    /\ et_pc = "returned"
    /\ \E p \in DOMAIN tables_by_page :
          /\ Len(tables_by_page[p]) = 1
          /\ \E a, b \in DOMAIN et_returned[p] :
                /\ a < b
                /\ et_returned[p][a].raw # et_returned[p][b].raw
                /\ ~ et_returned[p][a].blank /\ ~ et_returned[p][b].blank
                /\ et_returned[p][a].norm = et_returned[p][b].norm

(***************************************************************************)
(* Content items and pages.                                                *)
(***************************************************************************)
ContentItem(type, section, sub_section, text, table, bbox, item_meta) ==
    [type |-> type, section |-> section, sub_section |-> sub_section,
     text |-> text, table |-> table, bbox |-> bbox, meta |-> item_meta]

PageOut(page_number, content) == [page_number |-> page_number, content |-> content]

(***************************************************************************)
(* merge_tables_into_pages.                                                *)
(***************************************************************************)
\* y = 1e9 of lines 295 and 300
NoPositionY == 1000000000

\* {"heading": 0, "paragraph": 1, "table": 2, "chart": 3}.get(ci.type, 4)
OrderOf(type) ==
    CASE type = "heading" -> 0
      [] type = "paragraph" -> 1
      [] type = "table" -> 2
      [] type = "chart" -> 3
      [] OTHER -> 4

\* a key that gives an item with no bbox the top 0
sort_key_NoBboxFirst(ci) ==
    <<OrderOf(ci.type),
      IF ci.bbox # None /\ ci.bbox # <<>> /\ Len(ci.bbox) >= 2
      THEN ci.bbox[2]
      ELSE 0>>

sort_key(ci) ==
    <<OrderOf(ci.type),
      IF ci.bbox # None /\ ci.bbox # <<>> /\ Len(ci.bbox) >= 2
      THEN ci.bbox[2]
      ELSE NoPositionY>>

\* the order of Python's tuples of two numbers
KeyLessEq(a, b) == a[1] < b[1] \/ (a[1] = b[1] /\ a[2] <= b[2])

\* sorted(content, key=sort_key): each item goes behind the items whose key
\* is not greater, so items of equal keys keep their order
RECURSIVE Sorted(_)
Sorted(content) ==
    IF content = <<>> THEN <<>>
    ELSE LET init == Sorted(SubSeq(content, 1, Len(content) - 1))
             ci == content[Len(content)]
             n == Cardinality({k \in DOMAIN init :
                                  KeyLessEq(sort_key(init[k]), sort_key(ci))})
         IN SubSeq(init, 1, n) \o <<ci>> \o SubSeq(init, n + 1, Len(init))

\* the loop body of merge_tables_into_pages for the page of index i
MergedContent(content, i, tbp) ==
    LET appended ==
            IF i \in DOMAIN tbp
            THEN content \o [k \in DOMAIN tbp[i] |->
                               ContentItem("table", None, None, None, tbp[i][k],
                                           None, None)]
            ELSE content
    IN Sorted(appended)

merge_tables_into_pages(ps, tbp) ==
    [k \in DOMAIN ps |-> PageOut(ps[k].page_number, MergedContent(ps[k].content, k - 1, tbp))]

(***************************************************************************)
(* merge_tables_into_pages called on pages of a few items in any order.    *)
(***************************************************************************)
\* the items over all pages
MaxItems == 3

DigitSeq == <<"1", "2", "3", "4", "5", "6", "7", "8", "9">>

\* the type and the bbox of the items a page is given; the k-th item made has
\* the text k
MgShapes ==
    { <<"heading", <<0, 10, 100, 12>>>>,
      <<"paragraph", <<0, 15, 100, 18>>>>,
      <<"paragraph", <<0, 20, 100, 25>>>>,
      <<"paragraph", None>>,
      <<"chart", <<0, 0, 0, 0>>>> }

\* two normalized tables
MgTableA == [headers |-> <<T_Scheme, T_NAV>>, rows |-> <<<<<<"x", " ", "1">>>>>>]
MgTableB == [headers |-> <<<<"F", "u", "n", "d">>>>, rows |-> <<>>]
MgTableLists == {<<MgTableA>>, <<MgTableA, MgTableB>>}

MgInit ==
    /\ pages = <<PageOut(1, <<>>)>>
    /\ mg_pages_in = None
    /\ mg_tables_by_page = None
    /\ mg_pc = "build"
    /\ CtIdle /\ NtIdle /\ EtIdle /\ GpIdle /\ MeIdle

MgItemCount ==
    LET n[k \in 0..Len(pages)] ==
            IF k = 0 THEN 0 ELSE n[k - 1] + Len(pages[k].content)
    IN n[Len(pages)]

\* the last page is given one more item
MgAddItem(shape) ==
    /\ mg_pc = "build"
    /\ MgItemCount < MaxItems
    /\ LET ci == ContentItem(shape[1], None, None, <<DigitSeq[MgItemCount + 1]>>,
                             None, shape[2], None)
       IN pages' = [pages EXCEPT ![Len(pages)].content = Append(@, ci)]
    /\ UNCHANGED <<mg_pages_in, mg_tables_by_page, mg_pc, mgOthers>>

\* the document has one more page
MgAddPage ==
    /\ mg_pc = "build"
    /\ Len(pages) < MaxPages
    /\ pages' = Append(pages, PageOut(Len(pages) + 1, <<>>))
    /\ UNCHANGED <<mg_pages_in, mg_tables_by_page, mg_pc, mgOthers>>

MgMerge ==
    /\ mg_pc = "build"
    /\ \E keys \in SUBSET (0..(Len(pages) - 1)) :
          \E tbp \in [keys -> MgTableLists] :
              /\ mg_pages_in' = pages
              /\ mg_tables_by_page' = tbp
              /\ pages' = merge_tables_into_pages(pages, tbp)
    /\ mg_pc' = "merged"
    /\ UNCHANGED mgOthers

MgNext ==
    \/ \E shape \in MgShapes : MgAddItem(shape)
    \/ MgAddPage
    \/ MgMerge

SpecMerge == MgInit /\ [][MgNext]_vars

\* the order class of the claim, and whether an item has a position
C1_Class(ci) ==
    CASE ci.type = "heading" -> 0
      [] ci.type = "paragraph" -> 1
      [] ci.type = "table" -> 2
      [] ci.type = "chart" -> 3
C1_Positioned(ci) == ci.bbox # None

\* whether a may stand before b: by class, then by top, an item with no
\* position after every positioned item of its class
C1_MayPrecede(a, b) ==
    \/ C1_Class(a) < C1_Class(b)
    \/ /\ C1_Class(a) = C1_Class(b)
       /\ \/ ~ C1_Positioned(b)
          \/ C1_Positioned(a) /\ a.bbox[2] <= b.bbox[2]

\* the list a page had when it was sorted: its content at the call, then one
\* table item per table of the page, in the order of extraction
C1_Unsorted(k) ==
    mg_pages_in[k].content \o
    (IF k - 1 \in DOMAIN mg_tables_by_page
     THEN [j \in DOMAIN mg_tables_by_page[k - 1] |->
             ContentItem("table", None, None, None, mg_tables_by_page[k - 1][j],
                         None, None)]
     ELSE <<>>)

\* C1: after the merge every page's content is in the order of (class, top),
\* an item with no bbox after the positioned items of its class, and items of
\* equal (class, top) in the order they had: the item at index i of the list
\* that was sorted stands behind the items that must precede it and behind the
\* earlier items it ties with.
C1_StableOrder ==
    mg_pc = "merged" =>
        /\ Len(pages) = Len(mg_pages_in)
        /\ \A k \in DOMAIN pages :
              LET before == C1_Unsorted(k)
                  after == pages[k].content
                  strictly(a, b) == C1_MayPrecede(a, b) /\ ~ C1_MayPrecede(b, a)
                  ties(a, b) == C1_MayPrecede(a, b) /\ C1_MayPrecede(b, a)
                  place(i) ==
                      Cardinality({j \in DOMAIN before : strictly(before[j], before[i])})
                      + Cardinality({j \in 1..i : ties(before[j], before[i])})
              IN /\ Len(after) = Len(before)
                 /\ \A i \in DOMAIN before : after[place(i)] = before[i]
                 /\ \A i, j \in DOMAIN after : i < j => C1_MayPrecede(after[i], after[j])

\* the page of the example: heading(top 10), paragraph(top 20), paragraph(top
\* 15) and one table come out as heading, paragraph(15), paragraph(20), table
C1_Witness ==
    /\ mg_pc = "merged"
    /\ \E k \in DOMAIN pages :
          LET given == mg_pages_in[k].content
              got == pages[k].content
              is(ci, type, top) ==
                  ci.type = type /\ ci.bbox # None /\ ci.bbox[2] = top
          IN /\ Len(given) = 3
             /\ is(given[1], "heading", 10)
             /\ is(given[2], "paragraph", 20)
             /\ is(given[3], "paragraph", 15)
             /\ Len(got) = 4
             /\ is(got[1], "heading", 10)
             /\ is(got[2], "paragraph", 15)
             /\ is(got[3], "paragraph", 20)
             /\ got[4].type = "table" /\ got[4].table = MgTableA
             /\ got[4].bbox = None

(***************************************************************************)
(* group_page_content.  A span is its text and its font size; the blocks   *)
(* of a page are taken in the order blocks_sorted gives them.              *)
(***************************************************************************)
\* size_threshold of line 115
size_threshold == 11
\* len(txt) > 600 of line 159
SplitLen == 600

\* str.isupper(): a cased character, and none in lower case
IsUpper(t) ==
    /\ \E i \in DOMAIN t : t[i] \in UpperChars
    /\ \A i \in DOMAIN t : t[i] \notin LowerChars

\* len(t.split())
WordCount(t) ==
    Cardinality({i \in DOMAIN t :
                    t[i] \notin SpaceChars /\ (i = 1 \/ t[i - 1] \in SpaceChars)})

\* the label classify_spans_as_headings gives a span whose cleaned text is
\* text
LabelOf(text, size) ==
    IF size >= size_threshold \/ (IsUpper(text) /\ WordCount(text) <= 6)
    THEN "heading"
    ELSE "body"

\* whether the whitespace at index i of t is part of a match of
\* r'(?<=[.!?])\s+(?=[A-Z])': a whole run of whitespace between a sentence
\* mark and a capital
SentenceBreakAt(t, i) ==
    /\ t[i] \in SpaceChars
    /\ LET h == SkipCharsBack(t, i, SpaceChars)
           e == SkipChars(t, i, SpaceChars)
       IN h >= 1 /\ t[h] \in {".", "!", "?"} /\ e <= Len(t) /\ t[e] \in UpperChars

\* re.split(r'(?<=[.!?])\s+(?=[A-Z])', txt)
SplitSentences(t) ==
    LET idx == [i \in 1..Len(t) |-> i]
        first == SelectSeq(idx, LAMBDA i : SentenceBreakAt(t, i)
                                              /\ t[i - 1] \notin SpaceChars)
        last == SelectSeq(idx, LAMBDA i : SentenceBreakAt(t, i)
                                             /\ t[i + 1] \notin SpaceChars)
    IN [k \in 1..(Len(first) + 1) |->
          SubSeq(t, IF k = 1 THEN 1 ELSE last[k - 1] + 1,
                    IF k = Len(first) + 1 THEN Len(t) ELSE first[k] - 1)]

\* the parts of lines 160 to 163 that are not empty once stripped
ParagraphParts(txt) ==
    LET parts == SplitSentences(txt)
    IN SelectSeq([k \in DOMAIN parts |-> Strip(parts[k])], LAMBDA part : part # <<>>)

\* "Chart/graph detected"
ChartText ==
    <<"C","h","a","r","t","/","g","r","a","p","h"," ","d","e","t","e","c","t","e","d">>
\* {"note": "placeholder for chart"}
ChartMeta == <<<<"note", "placeholder for chart">>>>

\* a push_text whose heading branch opens a new section with every heading
push_text_Resection(st, as_heading, text, bbox) ==
    LET push(txt) ==
            IF txt = <<>> \/ is_noise(txt) THEN st
            ELSE IF as_heading
            THEN [st EXCEPT
                    !.current_section = txt,
                    !.items = Append(@, ContentItem("heading", txt, None, txt,
                                                    None, bbox, None))]
            ELSE [st EXCEPT
                    !.items = Append(@, ContentItem("paragraph", st.current_section,
                                                    st.current_sub, txt, None, bbox,
                                                    None))]
    IN IF text = None THEN st
       ELSE push(fix_glued_domain_terms(clean_text(text)))

\* push_text applied to st, the closure's items, current_section and
\* current_sub; its value is what they are when it returns
push_text(st, as_heading, text, bbox) ==
    LET paragraphs(parts) ==
            [st EXCEPT
               !.items = @ \o [k \in DOMAIN parts |->
                   ContentItem("paragraph", st.current_section, st.current_sub,
                               parts[k], None, bbox, None)]]
        push(txt) ==
            IF txt = <<>> \/ is_noise(txt) THEN st
            ELSE IF as_heading
            THEN IF st.current_section = None
                 THEN [st EXCEPT
                         !.current_section = txt,
                         !.items = Append(@, ContentItem("heading", txt, None, txt,
                                                         None, bbox, None))]
                 ELSE [st EXCEPT
                         !.current_sub = txt,
                         !.items = Append(@, ContentItem("heading", st.current_section,
                                                         txt, txt, None, bbox, None))]
            ELSE IF Len(txt) > SplitLen
                 THEN paragraphs(ParagraphParts(txt))
                 ELSE paragraphs(<<txt>>)
    IN IF text = None THEN st
       ELSE push(fix_glued_domain_terms(clean_text(text)))

\* buf_type = None: a label is a string, and so is this one
NoType == "None"

\* " ".join(buf_text)
JoinTexts(texts) ==
    Concat([k \in DOMAIN texts |-> IF k = 1 THEN texts[k] ELSE <<" ">> \o texts[k]])

\* classify_spans_as_headings(block): the label and the span of every span
\* whose cleaned text is not empty
classify_spans_as_headings(block) ==
    LET labeled(kept) ==
            [k \in DOMAIN kept |->
               [lab |-> LabelOf(clean_text(kept[k].text), kept[k].size),
                span |-> kept[k]]]
    IN labeled(SelectSeq(block, LAMBDA span : clean_text(span.text) # <<>>))

\* the calls of push_text the loop of line 174 and lines 188 and 189 make for
\* the labels from index k on, as the arguments as_heading and text, after
\* the calls made so far
RECURSIVE BlockPushes(_, _, _, _, _)
BlockPushes(labels, k, type, texts, pushes) ==
    LET push == [as_heading |-> type = "heading", text |-> JoinTexts(texts)]
        typ == IF labels[k].lab = "heading" THEN "heading" ELSE "body"
        step(t) ==
            IF t = <<>> THEN BlockPushes(labels, k + 1, type, texts, pushes)
            ELSE IF type = NoType
            THEN BlockPushes(labels, k + 1, typ, <<t>>, pushes)
            ELSE IF typ # type
            THEN BlockPushes(labels, k + 1, typ, <<t>>, Append(pushes, push))
            ELSE BlockPushes(labels, k + 1, type, Append(texts, t), pushes)
    IN IF k > Len(labels)
       THEN IF texts # <<>> THEN Append(pushes, push) ELSE pushes
       ELSE step(clean_text(labels[k].span.text))

\* push_text called with each of pushes in turn
RECURSIVE PushAll(_, _, _, _)
PushAll(st, pushes, k, bbox) ==
    IF k > Len(pushes) THEN st
    ELSE PushAll(push_text(st, pushes[k].as_heading, pushes[k].text, bbox),
                 pushes, k + 1, bbox)

(***************************************************************************)
(* group_page_content run on documents of a few pages and blocks.          *)
(***************************************************************************)
\* the blocks of the document
MaxBlocks == 2
\* the images of a page
MaxImages == 1

\* a run of k characters, in words of five letters
Words(k) == [i \in 1..k |-> IF i % 6 = 1 THEN " " ELSE "a"]
\* two sentences of more than 600 characters together
LongText == <<"A">> \o Words(300) \o <<".", " ", "B">> \o Words(300) \o <<".">>

S_Intro == [text |-> <<"I", "n", "t", "r", "o">>, size |-> 10]
S_RISK == [text |-> <<"R", "I", "S", "K">>, size |-> 10]
S_Fund == [text |-> <<"F", "u", "n", "d">>, size |-> 12]
S_Page == [text |-> <<"P", "a", "g", "e", " ", "3">>, size |-> 12]
S_Blank == [text |-> <<" ", "\t">>, size |-> 12]
S_Long == [text |-> LongText, size |-> 10]

\* the blocks of text a page may hold, each the spans of its lines
GpBlocks ==
    { <<S_Page, S_Intro>>,
      <<S_Fund, S_Intro, S_RISK>>,
      <<S_RISK, S_Blank, S_Fund, S_Intro>>,
      <<S_RISK, S_Long>> }

\* the bbox of the k-th block of a page in the order of line 136
BlockBbox(k) == <<0, 20 * k, 100, 20 * k + 15>>

GpInit ==
    /\ gp_npages \in 1..MaxPages
    /\ gp_i = 0
    /\ gp_block = 0
    /\ out = <<>>
    /\ items = <<>>
    /\ current_section = None
    /\ current_sub = None
    /\ gp_pushed = [p \in 0..(MaxPages - 1) |-> <<>>]
    /\ gp_blocks = 0
    /\ gp_pc = "blocks"
    /\ CtIdle /\ NtIdle /\ EtIdle /\ MgIdle /\ MeIdle

\* the body of the loop of line 169 for the next block of the page
GpBlock(block) ==
    /\ gp_pc = "blocks"
    /\ gp_i < gp_npages
    /\ gp_blocks < MaxBlocks
    /\ gp_blocks' = gp_blocks + 1
    /\ gp_block' = gp_block + 1
    /\ LET closure == [items |-> items, current_section |-> current_section,
                       current_sub |-> current_sub]
           put(st) == /\ items' = st.items
                      /\ current_section' = st.current_section
                      /\ current_sub' = st.current_sub
           run(pushes) ==
               /\ put(PushAll(closure, pushes, 1, BlockBbox(gp_block')))
               /\ gp_pushed' = [gp_pushed EXCEPT ![gp_i] = @ \o pushes]
       IN run(BlockPushes(classify_spans_as_headings(block), 1, NoType, <<>>, <<>>))
    /\ UNCHANGED <<gp_npages, gp_i, out, gp_pc, gpOthers>>

\* the page has no more blocks and n images: lines 191 to 205, and lines 138
\* to 140 for the page after it
GpEndPage(n) ==
    /\ gp_pc = "blocks"
    /\ gp_i < gp_npages
    /\ LET charts == [k \in 1..n |->
                        ContentItem("chart", current_section, current_sub,
                                    ChartText, None, <<0, 0, 0, 0>>, ChartMeta)]
       IN out' = Append(out, PageOut(gp_i + 1, items \o charts))
    /\ gp_i' = gp_i + 1
    /\ gp_block' = 0
    /\ items' = <<>>
    /\ current_section' = None
    /\ current_sub' = None
    /\ UNCHANGED <<gp_npages, gp_pushed, gp_blocks, gp_pc, gpOthers>>

GpReturn ==
    /\ gp_pc = "blocks"
    /\ gp_i = gp_npages
    /\ gp_pc' = "returned"
    /\ UNCHANGED <<gp_npages, gp_i, gp_block, out, items, current_section,
                   current_sub, gp_pushed, gp_blocks, gpOthers>>

GpNext ==
    \/ \E block \in GpBlocks : GpBlock(block)
    \/ \E n \in 0..MaxImages : GpEndPage(n)
    \/ GpReturn

SpecGroup == GpInit /\ [][GpNext]_vars

\* the texts of the heading pushes of a page that were accepted: not empty
\* and no noise once normalized
C8_Accepted(pushes) ==
    LET headings == SelectSeq(pushes, LAMBDA push : push.as_heading)
        accepted(txt) == txt # <<>> /\ ~ is_noise(txt)
    IN SelectSeq([k \in DOMAIN headings |->
                    fix_glued_domain_terms(clean_text(headings[k].text))],
                 accepted)

\* whether content is what the pushes of a page may leave, hs the texts of
\* the accepted heading pushes: one heading item per accepted heading push, the first with the section and no sub-section,
\* every later one a sub-section of that section, and every other item with
\* the section and sub-section of the headings before it
C8_PageOk(content, hs) ==
    LET headings == SelectSeq(content, LAMBDA ci : ci.type = "heading")
        before(k) == Cardinality({j \in 1..(k - 1) : content[j].type = "heading"})
    IN /\ Len(headings) = Len(hs)
       /\ \A k \in DOMAIN headings :
             /\ headings[k].text = hs[k]
             /\ headings[k].section = hs[1]
             /\ headings[k].sub_section = IF k = 1 THEN None ELSE hs[k]
       /\ Cardinality({k \in DOMAIN content :
                          /\ content[k].type = "heading"
                          /\ content[k].sub_section = None}) <= 1
       /\ \A k \in DOMAIN content :
             content[k].type # "heading" =>
                 /\ content[k].type \in {"paragraph", "chart"}
                 /\ content[k].section = IF before(k) = 0 THEN None ELSE hs[1]
                 /\ content[k].sub_section =
                        IF before(k) < 2 THEN None ELSE hs[before(k)]

\* C8: on every page the section is the first accepted heading push and never
\* changes, every later accepted heading push is the sub-section, every item
\* carries the section and sub-section current when it was emitted, a dropped
\* heading push leaves no trace, and a page starts with neither set.
C8_SectionPerPage ==
    gp_pc # "idle" =>
        /\ Len(out) = gp_i
        /\ \A p \in 1..Len(out) :
              /\ out[p].page_number = p
              /\ C8_PageOk(out[p].content, C8_Accepted(gp_pushed[p - 1]))
        /\ gp_i < gp_npages =>
              LET now(hs) ==
                      /\ C8_PageOk(items, hs)
                      /\ current_section = IF hs = <<>> THEN None ELSE hs[1]
                      /\ current_sub = IF Len(hs) < 2 THEN None ELSE hs[Len(hs)]
              IN now(C8_Accepted(gp_pushed[gp_i]))
        /\ gp_i = gp_npages =>
              items = <<>> /\ current_section = None /\ current_sub = None

\* a page done whose first heading push was dropped as noise, whose second
\* became the section and whose third the sub-section, with a paragraph
\* under no section, one under the section, and a chart under both
C8_Witness ==
    /\ gp_pc = "returned"
    /\ \E p \in DOMAIN out :
          LET content == out[p].content
              pushes == gp_pushed[p - 1]
          IN /\ Len(pushes) = 5
             /\ pushes[1].as_heading /\ is_noise(pushes[1].text)
             /\ ~ pushes[2].as_heading
             /\ pushes[3].as_heading
             /\ ~ pushes[4].as_heading
             /\ pushes[5].as_heading
             /\ Len(content) = 5
             /\ content[1].type = "paragraph"
             /\ content[1].section = None /\ content[1].sub_section = None
             /\ content[2].type = "heading"
             /\ content[2].section = pushes[3].text /\ content[2].sub_section = None
             /\ content[3].type = "paragraph"
             /\ content[3].section = pushes[3].text /\ content[3].sub_section = None
             /\ content[4].type = "heading"
             /\ content[4].section = pushes[3].text
             /\ content[4].sub_section = pushes[5].text
             /\ content[5].type = "chart"
             /\ content[5].section = pushes[3].text
             /\ content[5].sub_section = pushes[5].text

(***************************************************************************)
(* extract_fund_metadata_from_content.  The rupee sign is the character    *)
(* "RUPEE"; a float is the tuple <<"float", n, d>> of the number n / 10^d, *)
(* n not a multiple of ten unless d is 0.                                  *)
(***************************************************************************)
L_FUND == <<"F", "U", "N", "D">>
L_JUNE == <<"J", "U", "N", "E">>
L_DateOfAllotment ==
    <<"D", "a", "t", "e", " ", "o", "f", " ", "A", "l", "l", "o", "t", "m",
      "e", "n", "t">>
L_Benchmark == <<"B", "e", "n", "c", "h", "m", "a", "r", "k">>
L_Index == <<" ", "I", "n", "d", "e", "x">>
L_AdditionalBenchmark ==
    <<"A", "d", "d", "i", "t", "i", "o", "n", "a", "l", " ", "B", "e", "n",
      "c", "h", "m", "a", "r", "k">>
L_NetAUM == <<"N", "e", "t", " ", "A", "U", "M">>
L_MonthlyAverageAUM ==
    <<"M", "o", "n", "t", "h", "l", "y", " ", "A", "v", "e", "r", "a", "g",
      "e", " ", "A", "U", "M">>
L_crore == <<"c", "r", "o", "r", "e">>
L_RegularPlan ==
    <<"R", "e", "g", "u", "l", "a", "r", " ", "P", "l", "a", "n">>
L_DirectPlan == <<"D", "i", "r", "e", "c", "t", " ", "P", "l", "a", "n">>
L_FundManager ==
    <<"F", "u", "n", "d", " ", "M", "a", "n", "a", "g", "e", "r">>
L_Co == <<"C", "o">>
L_Mr == <<"M", "r">>
\* the months of line 323, in the order of the alternation
Months ==
    << <<"J", "a", "n", "u", "a", "r", "y">>,
       <<"F", "e", "b", "r", "u", "a", "r", "y">>,
       <<"M", "a", "r", "c", "h">>,
       <<"A", "p", "r", "i", "l">>,
       <<"M", "a", "y">>,
       <<"J", "u", "n", "e">>,
       <<"J", "u", "l", "y">>,
       <<"A", "u", "g", "u", "s", "t">>,
       <<"S", "e", "p", "t", "e", "m", "b", "e", "r">>,
       <<"O", "c", "t", "o", "b", "e", "r">>,
       <<"N", "o", "v", "e", "m", "b", "e", "r">>,
       <<"D", "e", "c", "e", "m", "b", "e", "r">> >>
\* Mr\.|Ms\.|Mrs\.
Honorifics == << <<"M", "r", ".">>, <<"M", "s", ".">>, <<"M", "r", "s", ".">> >>
\* Equity|Debt|Hybrid|Fixed Income
Roles ==
    << <<"E", "q", "u", "i", "t", "y">>,
       <<"D", "e", "b", "t">>,
       <<"H", "y", "b", "r", "i", "d">>,
       <<"F", "i", "x", "e", "d", " ", "I", "n", "c", "o", "m", "e">> >>

\* whether lit stands in t at index i; ic: without regard to case
LitAt(t, i, lit, ic) ==
    /\ i >= 1 /\ i + Len(lit) - 1 <= Len(t)
    /\ \A k \in DOMAIN lit :
          IF ic THEN ToLower(t[i + k - 1]) = ToLower(lit[k])
          ELSE t[i + k - 1] = lit[k]

\* of the captures a pattern gives at the indexes 1, 2, ..., None where it
\* does not match, the one re.search finds
FirstCapture(caps) ==
    LET first(hits) == IF hits = <<>> THEN None ELSE hits[1]
    IN first(SelectSeq(caps, LAMBDA c : c # None))

\* " ".join(t.split())
JoinWords(t) == Strip(CollapseSpaces(t))

\* the index behind a greedy match of r"\s*[:\-]?\s*" from index p on
AfterSeparator(t, p) ==
    LET a == SkipChars(t, p, SpaceChars)
        b == IF a <= Len(t) /\ t[a] \in {":", "-"} THEN a + 1 ELSE a
    IN SkipChars(t, b, SpaceChars)

Float(n, d) == <<"float", n, d>>

\* the number a run of digits stands for
RECURSIVE ToInt(_)
ToInt(digits) ==
    IF digits = <<>> THEN 0
    ELSE 10 * ToInt(SubSeq(digits, 1, Len(digits) - 1))
         + (CHOOSE v \in 0..9 : ToString(v) = digits[Len(digits)])

RECURSIVE Reduced(_, _)
Reduced(n, d) ==
    IF d > 0 /\ n % 10 = 0 THEN Reduced(n \div 10, d - 1) ELSE Float(n, d)

\* float(s) for s of digits and points: None where it raises ValueError
ParseFloat(s) ==
    LET points == SelectSeq(s, LAMBDA c : c = ".")
        digits == SelectSeq(s, LAMBDA c : c \in DigitChars)
        point == CHOOSE i \in DOMAIN s : s[i] = "."
    IN IF Len(points) > 1 \/ digits = <<>> \/ Len(points) + Len(digits) # Len(s)
       THEN None
       ELSE Reduced(ToInt(digits), IF points = <<>> THEN 0 ELSE Len(s) - point)

\* re.search(r"(January|...|December)\s+\d{4}", cover_text): m.group(0), or
\* None
DocDateAt(t, i) ==
    LET ms == SelectSeq(Months, LAMBDA m : LitAt(t, i, m, FALSE))
        p == i + Len(ms[1])
        d == SkipChars(t, p, SpaceChars)
    IN IF /\ ms # <<>>
          /\ d > p
          /\ d + 3 <= Len(t)
          /\ \A k \in 0..3 : t[d + k] \in DigitChars
       THEN SubSeq(t, i, d + 3)
       ELSE None
DocDate(t) == FirstCapture([i \in 1..Len(t) |-> DocDateAt(t, i)])

\* r"Date of Allotment\s*[:\-]?\s*([A-Za-z]+\s+\d{1,2},\s+\d{4})" matched at
\* index i: group 1, or None
DateOfAllotmentAt(t, i) ==
    LET c == AfterSeparator(t, i + Len(L_DateOfAllotment))
        e == SkipChars(t, c, LetterChars)
        f == SkipChars(t, e, SpaceChars)
        \* the comma behind one or two digits
        g == IF f + 2 <= Len(t) /\ t[f + 1] \in DigitChars /\ t[f + 2] = ","
             THEN f + 2
             ELSE f + 1
        h == SkipChars(t, g + 1, SpaceChars)
    IN IF /\ LitAt(t, i, L_DateOfAllotment, FALSE)
          /\ e > c /\ f > e
          /\ f <= Len(t) /\ t[f] \in DigitChars
          /\ g <= Len(t) /\ t[g] = ","
          /\ h > g + 1
          /\ h + 3 <= Len(t)
          /\ \A k \in 0..3 : t[h + k] \in DigitChars
       THEN SubSeq(t, c, h + 3)
       ELSE None
DateOfAllotment(t) == FirstCapture([i \in 1..Len(t) |-> DateOfAllotmentAt(t, i)])

\* [A-Za-z0-9\s\-\&]
BenchmarkChars == LetterChars \cup DigitChars \cup SpaceChars \cup {"-", "&"}

\* where group 1 of r"\s*[:\-]?\s*([A-Za-z0-9\s\-\&]+)" starts when the
\* pattern is matched from index p on, 0 if it does not match: the group may
\* start with whitespace or a hyphen the separator gave back, and of the ways
\* to match the regex engine takes the one whose first \s* is longest, then
\* the one that takes the separator, then the one whose second \s* is longest
BenchmarkStart(t, p) ==
    LET na == SkipChars(t, p, SpaceChars) - p
        ways == {w \in (0..na) \X {0, 1} \X (0..Len(t)) :
                    LET q == p + w[1]
                        r == q + w[2]
                        s == r + w[3]
                    IN /\ w[2] = 1 => (q <= Len(t) /\ t[q] \in {":", "-"})
                       /\ s <= SkipChars(t, r, SpaceChars)
                       /\ s <= Len(t) /\ t[s] \in BenchmarkChars}
        first(w, v) ==
            \/ w[1] > v[1]
            \/ w[1] = v[1] /\ w[2] > v[2]
            \/ w[1] = v[1] /\ w[2] = v[2] /\ w[3] >= v[3]
        sum(w) == p + w[1] + w[2] + w[3]
    IN IF ways = {} THEN 0
       ELSE sum(CHOOSE w \in ways : \A v \in ways : first(w, v))

\* r"<label>(?: Index)?\s*[:\-]?\s*([A-Za-z0-9\s\-\&]+)" matched at index i:
\* group 1, or None
BenchmarkAt(t, i, label) ==
    LET p == i + Len(label)
        group(s) == SubSeq(t, s, SkipChars(t, s, BenchmarkChars) - 1)
        without(s) == IF s = 0 THEN None ELSE group(s)
        with(s) == IF s = 0 THEN without(BenchmarkStart(t, p)) ELSE group(s)
    IN IF ~ LitAt(t, i, label, FALSE) THEN None
       ELSE IF LitAt(t, p, L_Index, FALSE)
       THEN with(BenchmarkStart(t, p + Len(L_Index)))
       ELSE without(BenchmarkStart(t, p))

\* lines 360 to 363 and 366 to 369: the value for the field, or None
Benchmark(t, label) ==
    LET value(g) ==
            IF g = None THEN None
            ELSE JoinWords(SplitPairs(g, LowerChars, UpperChars))
    IN value(FirstCapture([i \in 1..Len(t) |-> BenchmarkAt(t, i, label)]))

\* r"<label>\s*[:\-]?\s*[<rupee><grave> ]*([\d,]+\.?\d*)\s*crore" matched at
\* index i without regard to case: group 1, or None.  The rupee sign is the
\* character "RUPEE" and the grave accent the character "GRAVE"
AumAt(t, i, label) ==
    LET s == SkipChars(t, AfterSeparator(t, i + Len(label)),
                       {"RUPEE", "GRAVE", " "})
        e1 == SkipChars(t, s, DigitChars \cup {","})
        e2 == IF e1 <= Len(t) /\ t[e1] = "." THEN e1 + 1 ELSE e1
        e3 == SkipChars(t, e2, DigitChars)
        w == SkipChars(t, e3, SpaceChars)
    IN IF LitAt(t, i, label, TRUE) /\ e1 > s /\ LitAt(t, w, L_crore, TRUE)
       THEN SubSeq(t, s, e3 - 1)
       ELSE None

\* lines 372 to 377 and 380 to 385: the value for the field, or None
Aum(t, label) ==
    LET value(g) ==
            IF g = None THEN None
            ELSE ParseFloat(SelectSeq(g, LAMBDA c : c # ","))
    IN value(FirstCapture([i \in 1..Len(t) |-> AumAt(t, i, label)]))

\* r"<label>\s*[:\-]?\s*([\d\.]+)%" matched at index i without regard to
\* case: group 1, or None
ExpenseRatioAt(t, i, label) ==
    LET s == AfterSeparator(t, i + Len(label))
        e == SkipChars(t, s, DigitChars \cup {"."})
    IN IF LitAt(t, i, label, TRUE) /\ e > s /\ e <= Len(t) /\ t[e] = "%"
       THEN SubSeq(t, s, e - 1)
       ELSE None

\* lines 388 to 393 and 396 to 401: the value for the field, or None
ExpenseRatio(t, label) ==
    LET value(g) == IF g = None THEN None ELSE ParseFloat(g)
    IN value(FirstCapture([i \in 1..Len(t) |-> ExpenseRatioAt(t, i, label)]))

\* [A-Za-z\.\- ]
NameChars == LetterChars \cup {".", "-", " "}

\* the index that ends r"([A-Z][A-Za-z\.\- ]{2,})" matched from s, 0 if it
\* does not match
NameEnd(t, s) ==
    LET e == SkipChars(t, s + 1, NameChars)
    IN IF s <= Len(t) /\ t[s] \in UpperChars /\ e - (s + 1) >= 2 THEN e - 1 ELSE 0

\* the length of the honorific at index h of t, 0 if there is none
HonorificLen(t, h) ==
    LET hs == SelectSeq(Honorifics, LAMBDA x : LitAt(t, h, x, FALSE))
    IN IF hs = <<>> THEN 0 ELSE Len(hs[1])

\* the length of r"(?:Fund Manager|Co-? ?Fund Manager)" matched at index i,
\* 0 if it does not match
ManagerLabelLen(t, i) ==
    LET a == i + Len(L_Co)
        b == IF a <= Len(t) /\ t[a] = "-" THEN a + 1 ELSE a
        c == IF b <= Len(t) /\ t[b] = " " THEN b + 1 ELSE b
    IN IF LitAt(t, i, L_FundManager, FALSE) THEN Len(L_FundManager)
       ELSE IF LitAt(t, i, L_Co, FALSE) /\ LitAt(t, c, L_FundManager, FALSE)
       THEN c + Len(L_FundManager) - i
       ELSE 0

\* the pattern of line 405 matched at index i: where its group starts and
\* ends, <<0, 0>> if it does not match.  An honorific is taken if a name
\* follows it, and is the start of the name if none does
ManagerAt(t, i) ==
    LET n == ManagerLabelLen(t, i)
        h == AfterSeparator(t, i + n)
        s == SkipChars(t, h + HonorificLen(t, h), SpaceChars)
    IN IF n = 0 THEN <<0, 0>>
       ELSE IF HonorificLen(t, h) > 0 /\ NameEnd(t, s) # 0 THEN <<s, NameEnd(t, s)>>
       ELSE IF NameEnd(t, h) # 0 THEN <<h, NameEnd(t, h)>>
       ELSE <<0, 0>>

\* the pattern of line 419 matched at index i, likewise
MrAt(t, i) ==
    LET a == i + Len(L_Mr)
        b == IF a <= Len(t) /\ t[a] = "." THEN a + 1 ELSE a
        s == SkipChars(t, b, SpaceChars)
    IN IF LitAt(t, i, L_Mr, FALSE) /\ NameEnd(t, s) # 0
       THEN <<s, NameEnd(t, s)>>
       ELSE <<0, 0>>

\* re.findall of the pattern of line 405 (loose = FALSE) or of line 419
\* (loose = TRUE) in t from index from on: group 1 of every match, left to
\* right, each match sought behind the one before
RECURSIVE FindNames(_, _, _)
FindNames(t, from, loose) ==
    LET at(i) == IF loose THEN MrAt(t, i) ELSE ManagerAt(t, i)
        hits == {i \in from..Len(t) : at(i) # <<0, 0>>}
        rest(m) == <<SubSeq(t, m[1], m[2])>> \o FindNames(t, m[2] + 1, loose)
    IN IF hits = {} THEN <<>>
       ELSE rest(at(CHOOSE i \in hits : \A j \in hits : i <= j))

\* whether the role word at index j of t is one re.sub takes: a whole word
RoleAt(t, j, role) ==
    /\ LitAt(t, j, role, FALSE)
    /\ j = 1 \/ t[j - 1] \notin WordChars
    /\ j + Len(role) > Len(t) \/ t[j + Len(role)] \notin WordChars

\* re.sub(r"\b(Equity|Debt|Hybrid|Fixed Income)\b", "", t)
RemoveRoles(t) ==
    LET taken(i) ==
            \E r \in DOMAIN Roles :
                \E j \in (i - Len(Roles[r]) + 1)..i : RoleAt(t, j, Roles[r])
        kept == SelectSeq([i \in 1..Len(t) |-> i], LAMBDA i : ~ taken(i))
    IN [k \in DOMAIN kept |-> t[kept[k]]]

\* re.sub(r"\([^)]*\)", "", t)
RECURSIVE RemoveParens(_)
RemoveParens(t) ==
    LET opens == {i \in DOMAIN t : t[i] = "(" /\ \E j \in (i + 1)..Len(t) : t[j] = ")"}
        open == CHOOSE i \in opens : \A j \in opens : i <= j
        close == CHOOSE j \in (open + 1)..Len(t) :
                     t[j] = ")" /\ \A k \in (open + 1)..(j - 1) : t[k] # ")"
    IN IF opens = {} THEN t
       ELSE SubSeq(t, 1, open - 1) \o RemoveParens(SubSeq(t, close + 1, Len(t)))

\* re.sub(r"^(Mr\.|Ms\.|Mrs\.)\s*", "", t)
RemoveHonorific(t) ==
    IF HonorificLen(t, 1) = 0 THEN t
    ELSE SubSeq(t, SkipChars(t, HonorificLen(t, 1) + 1, SpaceChars), Len(t))

\* lines 407 to 410 and 421 to 424
ManagerName(mname) ==
    RemoveHonorific(JoinWords(Strip(RemoveParens(Strip(RemoveRoles(mname))))))

\* the loop of line 406 or 420 over the matches from index k on; st is
\* meta["managers"] and seen_managers
RECURSIVE AddManagers(_, _, _)
AddManagers(st, matches, k) ==
    LET add(name) ==
            IF name # <<>> /\ name \notin st.seen_managers
            THEN [managers |-> Append(st.managers, name),
                  seen_managers |-> st.seen_managers \cup {name}]
            ELSE st
    IN IF k > Len(matches) THEN st
       ELSE AddManagers(add(ManagerName(matches[k])), matches, k + 1)

\* not v, for a value that is None, a str or a float
Not(v) == v = None \/ v = <<>> \/ v = Float(0, 0)

ScalarFields ==
    {"name", "category", "aum_crore", "monthly_avg_aum", "expense_ratio_regular",
     "expense_ratio_direct", "benchmark", "additional_benchmark",
     "date_of_allotment"}

\* lines 309 to 325
InitialMeta(cover_text) ==
    [name |-> None, category |-> None, aum_crore |-> None,
     monthly_avg_aum |-> None, expense_ratio_regular |-> None,
     expense_ratio_direct |-> None, benchmark |-> None,
     additional_benchmark |-> None, date_of_allotment |-> None,
     managers |-> <<>>, doc_date |-> DocDate(cover_text)]

\* lines 340 to 343: whether the line is taken as the name
IsName(m, text) ==
    /\ Not(m.name)
    /\ Contains(Upper(text), L_FUND)
    /\ Len(text) < 120
    /\ ~ StartsWith(Upper(text), L_JUNE)

\* lines 346 to 348: whether the line is taken as the category
IsCategory(m, text) ==
    /\ ~ Not(m.name) /\ Not(m.category)
    /\ StartsWith(Strip(text), <<"(">>)
    /\ EndsWith(Strip(text), <<")">>)

\* raw[1:-1]
Inner(raw) == IF Len(raw) < 2 THEN <<>> ELSE SubSeq(raw, 2, Len(raw) - 1)

\* lines 349 to 351
CategoryOf(text) ==
    Strip(JoinWords(fix_glued_domain_terms(clean_text(Strip(Inner(Strip(text)))))))

\* lines 354 to 401: a field that is not set, or set to a value that counts
\* as false, takes the value the line gives, if it gives one
WithFields(m, text) ==
    LET set(mm, field, value) ==
            IF Not(mm[field]) /\ value # None
            THEN [mm EXCEPT ![field] = value]
            ELSE mm
        m1 == set(m, "date_of_allotment", DateOfAllotment(text))
        m2 == set(m1, "benchmark", Benchmark(text, L_Benchmark))
        m3 == set(m2, "additional_benchmark", Benchmark(text, L_AdditionalBenchmark))
        m4 == set(m3, "aum_crore", Aum(text, L_NetAUM))
        m5 == set(m4, "monthly_avg_aum", Aum(text, L_MonthlyAverageAUM))
        m6 == set(m5, "expense_ratio_regular", ExpenseRatio(text, L_RegularPlan))
    IN set(m6, "expense_ratio_direct", ExpenseRatio(text, L_DirectPlan))

\* lines 404 to 414 (loose = FALSE) and 418 to 428 (loose = TRUE)
WithManagers(st, text, loose) ==
    LET put(mgrs) ==
            [meta |-> [st.meta EXCEPT !.managers = mgrs.managers],
             seen_managers |-> mgrs.seen_managers,
             buffer |-> <<>>]
    IN put(AddManagers([managers |-> st.meta.managers,
                        seen_managers |-> st.seen_managers],
                       FindNames(st.buffer \o <<" ">> \o text, 1, loose), 1))

\* the body of the loop of line 331 from line 340 on, for the line text; st
\* is meta, seen_managers and buffer, and the value is what they are when the
\* body is left
Line(st, text) ==
    LET rest(s) ==
            IF Contains(Lower(text), Lower(L_FundManager))
            THEN WithManagers(s, text, FALSE)
            ELSE IF s.buffer # <<>> /\ StartsWith(text, <<"M", "r", ".">>)
            THEN WithManagers(s, text, TRUE)
            ELSE s
    IN IF IsName(st.meta, text)
       THEN [st EXCEPT !.meta.name =
                Strip(JoinWords(SplitPairs(text, LowerChars, UpperChars)))]
       ELSE IF IsCategory(st.meta, text)
       THEN [st EXCEPT !.meta.category = CategoryOf(text)]
       ELSE rest([st EXCEPT !.meta = WithFields(st.meta, text)])

\* the body of the loop of line 331 for the content item c
Item(st, c) ==
    LET line(text) == IF is_noise(text) THEN st ELSE Line(st, text)
    IN IF c.type \notin {"paragraph", "heading"} \/ c.text = None \/ c.text = <<>>
       THEN st
       ELSE line(fix_glued_domain_terms(clean_text(c.text)))

(***************************************************************************)
(* extract_fund_metadata_from_content run over a few content items.        *)
(***************************************************************************)
\* the content items of the pages
MaxLines == 3

Line_Fund ==
    <<"A", "B", "C", " ", "E", "q", "u", "i", "t", "y", " ", "F", "u", "n",
      "d">>
Line_Manager ==
    <<"F", "u", "n", "d", " ", "M", "a", "n", "a", "g", "e", "r", ":", " ",
      "M", "r", ".", " ", "J", "o", "h", "n", " ", "S", "m", "i", "t", "h",
      " ", "(", "E", "q", "u", "i", "t", "y", ")">>
Line_ManagerAgain ==
    <<"C", "o", "-", "F", "u", "n", "d", " ", "M", "a", "n", "a", "g", "e",
      "r", " ", "-", " ", "J", "o", "h", "n", " ", "S", "m", "i", "t", "h">>
Line_ManagerOnly ==
    <<"F", "u", "n", "d", " ", "M", "a", "n", "a", "g", "e", "r">>
Line_Mr == <<"M", "r", ".", " ", "R", "a", "j", " ", "K", "u", "m", "a", "r">>
Line_NoCategory == <<"(", ")">>
Line_Category ==
    <<"(", "o", "p", "e", "n", "e", "n", "d", "e", "d", " ", "e", "q", "u",
      "i", "t", "y", " ", "s", "c", "h", "e", "m", "e", ")">>
Line_AumZero ==
    <<"N", "e", "t", " ", "A", "U", "M", ":", " ", "0", " ", "c", "r", "o",
      "r", "e">>
Line_Aum ==
    <<"N", "e", "t", " ", "A", "U", "M", ":", " ", "RUPEE", " ", "1", ",",
      "2", "3", "4", ".", "5", " ", "c", "r", "o", "r", "e">>
Line_BenchmarkBlank ==
    <<"B", "e", "n", "c", "h", "m", "a", "r", "k", ":", " ", "(", "T", "R",
      "I", ")">>
Line_Benchmark ==
    <<"B", "e", "n", "c", "h", "m", "a", "r", "k", " ", "I", "n", "d", "e",
      "x", " ", "-", " ", "N", "i", "f", "t", "y", " ", "5", "0">>
Line_Plans ==
    <<"R", "e", "g", "u", "l", "a", "r", " ", "P", "l", "a", "n", ":", " ",
      "0", "%", " ", "D", "i", "r", "e", "c", "t", " ", "P", "l", "a", "n",
      " ", "0", ".", "5", "%">>
Line_Date ==
    <<"D", "a", "t", "e", " ", "o", "f", " ", "A", "l", "l", "o", "t", "m",
      "e", "n", "t", ":", " ", "J", "u", "n", "e", " ", "1", ",", " ", "2",
      "0", "2", "0">>
Line_PageBreak == <<"P", "a", "g", "e", "-", " ", "3">>
Cover_Dated ==
    <<"A", "B", "C", " ", "F", "a", "c", "t", "s", "h", "e", "e", "t", " ",
      "J", "u", "n", "e", " ", " ", "2", "0", "2", "4">>
Cover_Undated ==
    <<"A", "B", "C", " ", "F", "A", "C", "T", "S", "H", "E", "E", "T", " ",
      "2", "0", "2", "4">>

\* the lines a page may hold
MeTexts ==
    <<Line_Fund, Line_Manager, Line_ManagerAgain, Line_ManagerOnly, Line_Mr,
      Line_NoCategory, Line_Category, Line_AumZero, Line_Aum,
      Line_BenchmarkBlank, Line_Benchmark, Line_Plans, Line_Date,
      Line_PageBreak>>

\* the content items a page may hold: each line as a paragraph, a heading, a
\* table and a chart
MeItems ==
    [k \in DOMAIN MeTexts |->
        ContentItem("paragraph", None, None, MeTexts[k], None, <<0, 20, 100, 35>>,
                    None)]
    \o <<ContentItem("heading", Line_Fund, None, Line_Fund, None,
                     <<0, 20, 100, 35>>, None),
         ContentItem("table", None, None, None, MgTableA, None, None),
         ContentItem("chart", None, None, ChartText, None, <<0, 0, 0, 0>>,
                     ChartMeta)>>

\* whether the item c reaches line 404, and the matches line 405 finds then
ManagerLine(st, c) ==
    LET no == [label |-> FALSE, names |-> <<>>]
        line(text) ==
            IF \/ is_noise(text)
               \/ IsName(st.meta, text)
               \/ IsCategory(st.meta, text)
               \/ ~ Contains(Lower(text), Lower(L_FundManager))
            THEN no
            ELSE [label |-> TRUE,
                  names |-> FindNames(st.buffer \o <<" ">> \o text, 1, FALSE)]
    IN IF c.type \notin {"paragraph", "heading"} \/ c.text = None \/ c.text = <<>>
       THEN no
       ELSE line(fix_glued_domain_terms(clean_text(c.text)))

MeInit ==
    /\ \E cover_text \in {<<>>, Cover_Dated, Cover_Undated} :
          meta = InitialMeta(cover_text)
    /\ seen_managers = {}
    /\ buffer = <<>>
    /\ me_lines = <<>>
    /\ me_last = [label |-> FALSE, names |-> <<>>]
    /\ me_pc = "loop"
    /\ CtIdle /\ NtIdle /\ EtIdle /\ MgIdle /\ GpIdle

\* the loop of lines 330 and 331 reaches the next content item
MeItem(c) ==
    /\ me_pc = "loop"
    /\ Len(me_lines) < MaxLines
    /\ LET put(st) == /\ meta' = st.meta
                      /\ seen_managers' = st.seen_managers
                      /\ buffer' = st.buffer
       IN put(Item([meta |-> meta, seen_managers |-> seen_managers,
                    buffer |-> buffer], c))
    /\ me_lines' = Append(me_lines, c.text)
    /\ me_last' = ManagerLine([meta |-> meta, seen_managers |-> seen_managers,
                               buffer |-> buffer], c)
    /\ UNCHANGED <<me_pc, meOthers>>

MeReturn ==
    /\ me_pc = "loop"
    /\ me_pc' = "returned"
    /\ UNCHANGED <<meta, seen_managers, buffer, me_lines, me_last, meOthers>>

MeNext ==
    \/ \E k \in DOMAIN MeItems : MeItem(MeItems[k])
    \/ MeReturn

SpecMeta == MeInit /\ [][MeNext]_vars

\* C6: every scalar field is assigned at most once: a field that a match has
\* set, to whatever value, is not changed by a later line.
C6_AssignedOnce ==
    [][\A f \in ScalarFields : meta[f] # None => meta'[f] = meta[f]]_vars

\* a field set anew: the category, first the empty string of the line "()",
\* is the category of a later line
C6_Witness ==
    /\ Len(me_lines) = 3
    /\ me_lines[2] = Line_NoCategory
    /\ me_lines[3] = Line_Category
    /\ meta.category = CategoryOf(Line_Category)

Name_JohnSmith == <<"J", "o", "h", "n", " ", "S", "m", "i", "t", "h">>

\* C7: managers holds no two equal strings, and the line "Fund Manager: Mr.
\* John Smith (Equity)" gives managers == ["John Smith"].
C7_NoDuplicates ==
    /\ \A a, b \in DOMAIN meta.managers :
          a # b => meta.managers[a] # meta.managers[b]
    /\ me_lines = <<Line_Manager>> => meta.managers = <<Name_JohnSmith>>

\* the line of the example read after the name is set, and the same manager
\* named again: managers is ["John Smith"]
C7_Witness ==
    /\ me_lines = <<Line_Fund, Line_Manager, Line_ManagerAgain>>
    /\ meta.managers = <<Name_JohnSmith>>

\* C9: a line that holds "Fund Manager" and from which no name is captured
\* leaves the buffer non-empty, awaiting a continuation.
C9_AwaitsContinuation ==
    (me_last.label /\ me_last.names = <<>>) => buffer # <<>>

\* a line that holds "Fund Manager" and names nobody, then a line that
\* begins with "Mr.": no manager is added
C9_Witness ==
    /\ me_lines = <<Line_Fund, Line_ManagerOnly, Line_Mr>>
    /\ meta.managers = <<>>
    /\ buffer = <<>>

(***************************************************************************)
(* The text normalizer applied twice to every text over a small alphabet.  *)
(***************************************************************************)
MaxTextLen == 7
TextAlphabet == {"a", "B", "1", "-", " "}

CtInit ==
    /\ ct_t = <<>>
    /\ ct_once = None
    /\ ct_twice = None
    /\ ct_pc = "input"
    /\ NtIdle /\ EtIdle /\ MgIdle /\ GpIdle /\ MeIdle

\* the caller's text grows by one character
CtType(c) ==
    /\ ct_pc = "input"
    /\ Len(ct_t) < MaxTextLen
    /\ ct_t' = Append(ct_t, c)
    /\ UNCHANGED <<ct_once, ct_twice, ct_pc, ctOthers>>

CtClean ==
    /\ ct_pc = "input"
    /\ ct_once' = clean_text(ct_t)
    /\ ct_pc' = "once"
    /\ UNCHANGED <<ct_t, ct_twice, ctOthers>>

CtCleanAgain ==
    /\ ct_pc = "once"
    /\ ct_twice' = clean_text(ct_once)
    /\ ct_pc' = "twice"
    /\ UNCHANGED <<ct_t, ct_once, ctOthers>>

CtNext ==
    \/ \E c \in TextAlphabet : CtType(c)
    \/ CtClean
    \/ CtCleanAgain

SpecClean == CtInit /\ [][CtNext]_vars

\* C3: clean_text(clean_text(t)) = clean_text(t) for every text t over
\* letters, digits, hyphens and whitespace.
C3_Idempotent == ct_pc = "twice" => ct_twice = ct_once

=============================================================================
